---- MODULE Spec2Model ----
(***************************************************************************)
(* Vibecast: content filtering/selection (sources/base.py), the run state  *)
(* and dedupe window and the pipeline (run_daily.py), the podcast feed     *)
(* merge (rss_feed.py), text chunking for speech synthesis (tts.py,        *)
(* tts/base.py) and audio post-processing (audio_processing.py).           *)
(*                                                                         *)
(* Strings are sequences of one-character strings.  Python object          *)
(* references are positions in the list that owns the objects: `items` is  *)
(* the list of ContentItem objects, `filtered` and `selected` are lists of *)
(* references into it, so that the in-place assignment item.score is seen  *)
(* through every alias.  Scores are counted in tenths (1.0 = 10).          *)
(***************************************************************************)
EXTENDS Integers, Sequences, FiniteSets, TLC

VARIABLES
    pc,              \* position of the running operation
    items,           \* list of ContentItem objects (all_items)
    block_keywords,  \* filters.block_keywords
    boost_keywords,  \* filters.boost_keywords
    used_urls,       \* set of URLs handed to filter_items
    max_items,       \* filters.global_max_items
    max_per_source,  \* filters.max_per_source
    filtered,        \* result of filter_items: references into items
    selected,        \* result of select_items: references into items
    now,             \* the wall clock (datetime.now()), in ticks
    dedupe_days,     \* filters.dedupe_days
    state_file,      \* content of state.json
    state,           \* the state dict of the running pipeline
    dry_run,         \* --dry-run
    result,          \* value returned by run_pipeline ("none" while running)
    feed_file,       \* content of site/feed.xml
    feed_xml,        \* the string returned by update_feed
    new_episode,     \* the episode dict given to update_feed
    stamped,         \* history: url -> tick at which a successful run stamped it
    loaded_at,       \* history: tick at which the running pipeline loaded state
    weather_text,    \* the weather text of the running pipeline
    available,       \* history: the feed entries published when the run fetched
    fetch_failed,    \* history: the fetches of the run that failed
    trace,           \* history: the steps and service calls the run started
    effects,         \* history: the writes and uploads the run completed
    exit_code,       \* exit status of the last process, NoExit before it ends
    tts_text,        \* chunk_text: the text to split
    max_chars,       \* chunk_text: the character limit
    remaining,       \* chunk_text: the text not yet split
    chunks,          \* chunk_text: the chunks appended so far
    split_pos,       \* chunk_text: the split position of the last iteration
    returned,        \* chunk_text: the returned list
    ffmpeg_available,\* AudioProcessor: ffmpeg was found
    preset,          \* AudioProcessor: name of the preset
    output_path,     \* process: an output path was given
    temp_files,      \* the temporary files that exist
    created,         \* history: the temporary files the call created
    temp_count,      \* number of temporary files created so far
    ffmpeg_status    \* process: outcome of the ffmpeg run

filterVars == <<items, block_keywords, boost_keywords, used_urls,
                max_items, max_per_source, filtered, selected>>
runVars == <<now, dedupe_days, state_file, state, dry_run, result,
             stamped, loaded_at, weather_text, available, fetch_failed,
             trace, effects, exit_code>>
feedVars == <<feed_file, feed_xml, new_episode>>

chunkVars == <<tts_text, max_chars, remaining, chunks, split_pos, returned>>
audioVars == <<ffmpeg_available, preset, output_path, temp_files, created,
               temp_count, ffmpeg_status>>
toolVars == <<chunkVars, audioVars>>

vars == <<pc, filterVars, runVars, feedVars, toolVars>>

----------------------------------------------------------------------------
(* Bounds *)

MaxLen == 3          \* longest candidate list given to filter_items
MaxSelLen == 4       \* longest list given to select_items
MaxLimit == 3        \* largest max_items / max_per_source tried
MaxFetch == 2        \* most items one run fetches
MaxTime == 21        \* last clock tick
MaxEpisodes == 2     \* feed.max_episodes
MaxDedupe == 2       \* largest dedupe_days given to clean_old_urls
MaxFailed == 1       \* most fetches of weather and RSS sources failing in one run
MaxTextLen == 5      \* longest text given to chunk_text
MaxChars == 4        \* largest max_chars given to chunk_text
MaxTempFiles == 4    \* most temporary files created by the calls of process

----------------------------------------------------------------------------
(* Strings *)

\* str.lower() on the model alphabet
LowerChar(c) == IF c = "A" THEN "a" ELSE IF c = "B" THEN "b" ELSE c

Lower(s) == [i \in 1..Len(s) |-> LowerChar(s[i])]

\* Python `kw in text` for strings: substring test ("" is in every string)
Contains(text, kw) ==
    \E i \in 0..(Len(text) - Len(kw)) : SubSeq(text, i + 1, i + Len(kw)) = kw

\* f"{item.title} {item.summary}".lower()
ItemText(item) == Lower(item.title \o <<" ">> \o item.summary)

----------------------------------------------------------------------------
(* sources/base.py: ContentItem, filter_items, select_items *)

BoostStep == 10      \* score += 1.0

ContentItem(title, url, source, summary, score) ==
    [title |-> title, url |-> url, source |-> source,
     summary |-> summary, score |-> score]

\* if item.url in used_urls: continue
AlreadyUsedInverted(item, used) == item.url \notin used

AlreadyUsed(item, used) == item.url \in used

\* for keyword in block_keywords: if keyword.lower() in text: blocked = True
RECURSIVE BlockedCaseSensitive(_, _, _)
BlockedCaseSensitive(text, kws, k) ==
    IF k > Len(kws) THEN FALSE
    ELSE IF Contains(text, kws[k]) THEN TRUE
    ELSE BlockedCaseSensitive(text, kws, k + 1)

RECURSIVE Blocked(_, _, _)
Blocked(text, kws, k) ==
    IF k > Len(kws) THEN FALSE
    ELSE IF Contains(text, Lower(kws[k])) THEN TRUE
    ELSE Blocked(text, kws, k + 1)

\* score = 0.0; for keyword in boost_keywords: if ... : score += 1.0
RECURSIVE BoostScore(_, _, _, _)
BoostScore(text, kws, k, score) ==
    IF k > Len(kws) THEN score
    ELSE BoostScore(text, kws, k + 1,
                    IF Contains(text, Lower(kws[k])) THEN score + BoostStep
                    ELSE score)

\* the score assigned to a kept item
ItemScoreKeepsPrior(item, boost) ==
    BoostScore(ItemText(item), boost, 1, item.score)

ItemScore(item, boost) == BoostScore(ItemText(item), boost, 1, 0)

\* list.sort(key=score, reverse=True): stable, equal keys keep their order.
\* Insert r behind every element whose score is >= the score of r.
RECURSIVE InsertBeforeEqualScore(_, _, _)
InsertBeforeEqualScore(sorted, r, its) ==
    IF sorted = <<>> THEN <<r>>
    ELSE IF its[Head(sorted)].score > its[r].score
         THEN <<Head(sorted)>> \o InsertBeforeEqualScore(Tail(sorted), r, its)
         ELSE <<r>> \o sorted

RECURSIVE InsertByScore(_, _, _)
InsertByScore(sorted, r, its) ==
    IF sorted = <<>> THEN <<r>>
    ELSE IF its[Head(sorted)].score >= its[r].score
         THEN <<Head(sorted)>> \o InsertByScore(Tail(sorted), r, its)
         ELSE <<r>> \o sorted

RECURSIVE SortByScore(_, _, _)
SortByScore(refs, k, its) ==
    IF k = 0 THEN <<>>
    ELSE InsertByScore(SortByScore(refs, k - 1, its), refs[k], its)

\* The loop of filter_items over items[i..], with the list of kept
\* references and the (mutated) objects as accumulators.
RECURSIVE FilterLoop(_, _, _, _, _, _)
FilterLoop(its, i, kept, block, boost, used) ==
    IF i > Len(its) THEN [items |-> its, filtered |-> kept]
    ELSE IF AlreadyUsed(its[i], used)
         THEN FilterLoop(its, i + 1, kept, block, boost, used)
    ELSE IF Blocked(ItemText(its[i]), block, 1)
         THEN FilterLoop(its, i + 1, kept, block, boost, used)
    ELSE FilterLoop([its EXCEPT ![i].score = ItemScore(its[i], boost)],
                    i + 1, Append(kept, i), block, boost, used)

FilterItemsSortsInput(its, block, boost, used) ==
    LET r == FilterLoop(its, 1, <<>>, block, boost, used)
        f == SortByScore(r.filtered, Len(r.filtered), r.items)
    IN  [items |-> [k \in 1..Len(f) |-> r.items[f[k]]],
         filtered |-> [k \in 1..Len(f) |-> k]]

\* filter_items: the objects after the call and the returned list
FilterItems(its, block, boost, used) ==
    LET r == FilterLoop(its, 1, <<>>, block, boost, used)
    IN  [items |-> r.items,
         filtered |-> SortByScore(r.filtered, Len(r.filtered), r.items)]

\* if len(selected) >= max_items: break
SelectionFullOffByOne(sel, maxItems) == Len(sel) > maxItems

SelectionFull(sel, maxItems) == Len(sel) >= maxItems

\* if current_count >= max_per_source: continue
SourceFullOffByOne(current_count, maxPerSource) == current_count > maxPerSource

SourceFull(current_count, maxPerSource) == current_count >= maxPerSource

RECURSIVE SelectLoopStopsAtCap(_, _, _, _, _, _, _)
SelectLoopStopsAtCap(its, refs, i, sel, counts, maxItems, maxPerSource) ==
    IF i > Len(refs) THEN sel
    ELSE IF SelectionFull(sel, maxItems) THEN sel
    ELSE LET src == its[refs[i]].source
             current_count == IF src \in DOMAIN counts THEN counts[src] ELSE 0
         IN  IF SourceFull(current_count, maxPerSource)
             THEN sel
             ELSE SelectLoopStopsAtCap(its, refs, i + 1, Append(sel, refs[i]),
                             [s \in DOMAIN counts \cup {src} |->
                                 IF s = src THEN current_count + 1
                                 ELSE counts[s]],
                             maxItems, maxPerSource)

\* The loop of select_items over refs[i..]: `sel` is the list selected so
\* far, `counts` is source_counts (source -> number taken).
RECURSIVE SelectLoop(_, _, _, _, _, _, _)
SelectLoop(its, refs, i, sel, counts, maxItems, maxPerSource) ==
    IF i > Len(refs) THEN sel
    ELSE IF SelectionFull(sel, maxItems) THEN sel
    ELSE LET src == its[refs[i]].source
             current_count == IF src \in DOMAIN counts THEN counts[src] ELSE 0
         IN  IF SourceFull(current_count, maxPerSource)
             THEN SelectLoop(its, refs, i + 1, sel, counts,
                             maxItems, maxPerSource)
             ELSE SelectLoop(its, refs, i + 1, Append(sel, refs[i]),
                             [s \in DOMAIN counts \cup {src} |->
                                 IF s = src THEN current_count + 1
                                 ELSE counts[s]],
                             maxItems, maxPerSource)

\* select_items
SelectItems(its, refs, maxItems, maxPerSource) ==
    SelectLoop(its, refs, 1, <<>>, <<>>, maxItems, maxPerSource)

----------------------------------------------------------------------------
(* run_daily.py: timestamps *)

TicksPerDay == 2     \* clock resolution: ticks in one day

\* A timestamp string is a sequence of character codes; Dot stands for "."
\* which sorts before every digit.
Dot == -1

\* datetime.isoformat(): zero-padded fields, most significant first, and a
\* fractional part that is omitted when it is zero.  Days take the place of
\* the date-time fields and the tick within the day that of the
\* microseconds.
IsoFormat(t) ==
    LET day == t \div TicksPerDay
        frac == t % TicksPerDay
    IN  <<day \div 10, day % 10>> \o (IF frac = 0 THEN <<>> ELSE <<Dot, frac>>)

\* a > b on Python strings: lexicographic, a proper prefix is smaller
RECURSIVE StrGreater(_, _)
StrGreater(a, b) ==
    IF a = <<>> THEN FALSE
    ELSE IF b = <<>> THEN TRUE
    ELSE IF Head(a) # Head(b) THEN Head(a) > Head(b)
    ELSE StrGreater(Tail(a), Tail(b))

StrGreaterOrEqual(a, b) == a = b \/ StrGreater(a, b)

\* cutoff = datetime.now() - timedelta(days=dedupe_days)
CutoffTimeAdds(t, days) == t + days * TicksPerDay

CutoffTime(t, days) == t - days * TicksPerDay

(* run_daily.py: state.json *)

NoTime == <<>>       \* None

NoTimestamps == <<>> \* the empty dict

\* the state dict; has_timestamps says whether the key "url_timestamps" exists
StateDict(used, has, stamps, last) ==
    [used_urls |-> used, has_timestamps |-> has,
     url_timestamps |-> stamps, last_run |-> last]

\* {"used_urls": [], "last_run": None}
EmptyState == StateDict({}, FALSE, NoTimestamps, NoTime)

\* state.json: absent, text that is not JSON, bytes that are not text, or a
\* JSON object
FileAbsent == [kind |-> "absent", content |-> EmptyState]
FileMalformed == [kind |-> "malformed", content |-> EmptyState]
FileUndecodable == [kind |-> "undecodable", content |-> EmptyState]
FileJson(st) == [kind |-> "json", content |-> st]

\* load_state raises instead of returning: open(..., "r") decodes the bytes
\* and only json.JSONDecodeError is caught
LoadStateRaises(file) == file.kind = "undecodable"

LoadState(file) ==
    IF file.kind = "absent" THEN EmptyState
    ELSE IF file.kind = "malformed" THEN EmptyState
    ELSE file.content

\* if ts > cutoff_str
NewerOrEqual(ts, cutoff_str) == StrGreaterOrEqual(ts, cutoff_str)

Newer(ts, cutoff_str) == StrGreater(ts, cutoff_str)

\* clean_old_urls
CleanOldUrls(st, days, t) ==
    LET cutoff_str == IsoFormat(CutoffTime(t, days))
        keep == {u \in DOMAIN st.url_timestamps :
                    Newer(st.url_timestamps[u], cutoff_str)}
    IN  IF st.has_timestamps
        THEN [st EXCEPT !.url_timestamps = [u \in keep |-> st.url_timestamps[u]],
                        !.used_urls = keep]
        ELSE st

StampSelectedKeepsUsed(st, urls, t) ==
    LET old == IF st.has_timestamps THEN st.url_timestamps ELSE NoTimestamps
        stamps == [u \in DOMAIN old \cup urls |->
                      IF u \in urls THEN IsoFormat(t) ELSE old[u]]
    IN  StateDict(st.used_urls \cup DOMAIN stamps, TRUE, stamps, IsoFormat(t))

\* lines 421-430: stamp every selected url with now and rebuild used_urls
StampSelected(st, urls, t) ==
    LET old == IF st.has_timestamps THEN st.url_timestamps ELSE NoTimestamps
        stamps == [u \in DOMAIN old \cup urls |->
                      IF u \in urls THEN IsoFormat(t) ELSE old[u]]
    IN  StateDict(DOMAIN stamps, TRUE, stamps, IsoFormat(t))

----------------------------------------------------------------------------
(* rss_feed.py.  Text is a sequence of tokens; CdataEnd is the token "]]>". *)
(* A value whose Python type varies is a record [type, v].                  *)

CdataEnd == "]]>"

\* _escape: html.escape(text, quote=True); "]]>" becomes "]]&gt;"
XmlEscape(text) ==
    [i \in 1..Len(text) |-> IF text[i] = CdataEnd THEN "]]&gt;" ELSE text[i]]

\* the XML parser resolves the entities of element text and attributes
XmlUnescape(text) ==
    [i \in 1..Len(text) |-> IF text[i] = "]]&gt;" THEN CdataEnd ELSE text[i]]

DateTimeValue(t) == [type |-> "datetime", v |-> <<t>>]
FloatValue(x) == [type |-> "float", v |-> <<x>>]
StrValue(str) == [type |-> "str", v |-> str]
NoneValue == [type |-> "none", v |-> <<>>]

\* email.utils.format_datetime: date and time of day
FormatDatetime(t) == <<t \div TicksPerDay, t % TicksPerDay>>

\* the episode dict
Episode(title, description, pub_date, url, file_size, duration, guid, image) ==
    [title |-> title, description |-> description, pub_date |-> pub_date,
     url |-> url, file_size |-> file_size, duration |-> duration,
     guid |-> guid, image_url |-> image]

\* create_episode_item: pubDate
PubDateStr(pub_date, t) ==
    IF pub_date.type = "datetime" THEN FormatDatetime(pub_date.v[1])
    ELSE IF pub_date.type = "str" THEN pub_date.v
    ELSE FormatDatetime(t)

\* create_episode_item: itunes:duration, <<>> when the element is left out
DurationStr(duration) ==
    IF duration.type = "none" THEN <<>>
    ELSE IF duration.type = "float"
    THEN IF duration.v[1] = 0 THEN <<>>
         ELSE LET hours == duration.v[1] \div 3600
                  remainder == duration.v[1] % 3600
                  minutes == remainder \div 60
                  seconds == remainder % 60
              IN  IF hours > 0 THEN <<hours, minutes, seconds>>
                  ELSE <<minutes, seconds>>
    ELSE duration.v

\* create_episode_item: the <item> element as written to the file
EpisodeItem(ep, t) ==
    [title |-> XmlEscape(ep.title),
     description |-> ep.description,
     pubDate |-> PubDateStr(ep.pub_date, t),
     guid |-> XmlEscape(ep.guid),
     url |-> XmlEscape(ep.url),
     length |-> ep.file_size,
     duration |-> DurationStr(ep.duration),
     image |-> XmlEscape(ep.image_url)]

\* site/feed.xml: absent, or the <item> elements of the channel
NoFeed == [exists |-> FALSE, items |-> <<>>]
FeedFile(xml) == [exists |-> TRUE, items |-> xml]

\* the description is written inside <![CDATA[...]]> without escaping: the
\* document is well-formed only if no description contains "]]>"
WellFormed(file) ==
    \A i \in 1..Len(file.items) :
        \A k \in 1..Len(file.items[i].description) :
            file.items[i].description[k] # CdataEnd

\* load_existing_episodes: one dict per <item>; image_url is not read
ParseItem(item) ==
    Episode(XmlUnescape(item.title), item.description, StrValue(item.pubDate),
            XmlUnescape(item.url), item.length,
            IF item.duration # <<>> THEN StrValue(item.duration) ELSE NoneValue,
            XmlUnescape(item.guid), <<>>)

LoadExistingEpisodes(file) ==
    IF ~file.exists THEN <<>>
    ELSE IF ~WellFormed(file) THEN <<>>
    ELSE [i \in 1..Len(file.items) |-> ParseItem(file.items[i])]

\* for i, ep in enumerate(existing): if ep.get("guid") == new_guid
FirstWithGuid(existing, guid) ==
    CHOOSE i \in 1..Len(existing) :
        /\ existing[i].guid = guid
        /\ \A j \in 1..(i - 1) : existing[j].guid # guid

\* update_feed, lines 255-271: the merged episode list
MergeEpisode(existing, ep) ==
    IF ep.guid # <<>> /\ \E i \in 1..Len(existing) : existing[i].guid = ep.guid
    THEN [existing EXCEPT ![FirstWithGuid(existing, ep.guid)] = ep]
    ELSE <<ep>> \o existing

\* create_feed_xml: for episode in episodes[:max_episodes]
CreateFeedXml(episodes, maxEpisodes, t) ==
    LET n == IF Len(episodes) < maxEpisodes THEN Len(episodes) ELSE maxEpisodes
    IN  [i \in 1..n |-> EpisodeItem(episodes[i], t)]

\* update_feed
UpdateFeed(file, ep, maxEpisodes, t) ==
    CreateFeedXml(MergeEpisode(LoadExistingEpisodes(file), ep), maxEpisodes, t)

\* create_episode_metadata: title and guid come from the date
DayOf(t) == t \div TicksPerDay

CreateEpisodeMetadata(t, mp3_url, mp3_size, duration_seconds, notes, image) ==
    Episode(<<"title", ToString(DayOf(t))>>, notes, DateTimeValue(t),
            mp3_url, mp3_size, FloatValue(duration_seconds),
            <<ToString(DayOf(t))>>, image)

----------------------------------------------------------------------------
(* Inputs *)

\* all sequences over S of length at most n
SeqUpTo(S, n) == UNION {[1..k -> S] : k \in 0..n}

\* title and summary of the fetched entries
Headlines == {[title |-> <<"a">>, summary |-> <<>>],
              [title |-> <<"a">>, summary |-> <<"B">>],
              [title |-> <<"A", "b">>, summary |-> <<>>]}
Urls == {"u1", "u2"}
Sources == {"s1", "s2"}

\* RSSSource._parse_entry: score=self.trust_score, the trust score of the
\* source (0.5 by default), in tenths
TrustScore(source) == IF source = "s1" THEN 5 ELSE 10

FetchedItems ==
    {ContentItem(h.title, u, s, h.summary, TrustScore(s)) :
        h \in Headlines, u \in Urls, s \in Sources}

\* keyword lists: lists of strings (the empty string is <<>>)
BlockChoices == {<<>>, << <<"B">> >>, << <<"c">>, <<"a", " ", "b">> >>}
BoostChoices == {<<>>, << <<"A">> >>,
                 << <<"b">>, <<"b">>, <<"a", " ", "B">> >>, << <<>> >>}
UsedChoices == {{}, {"u1"}}

SelectSources == {"s1", "s2", "s3"}
SelectCandidates ==
    {ContentItem(<<"a">>, "u1", s, <<>>, 0) : s \in SelectSources}
Limits == (-1)..MaxLimit

----------------------------------------------------------------------------
NoEpisode ==
    Episode(<<>>, <<>>, NoneValue, <<>>, 0, NoneValue, <<>>, <<>>)

\* no pipeline is running
NoExit == -1

\* nothing is recorded of a run
NoLog ==
    /\ weather_text = "none"
    /\ available = {}
    /\ fetch_failed = {}
    /\ trace = <<>>
    /\ effects = {}

RunIdle ==
    /\ state = EmptyState
    /\ dry_run = FALSE
    /\ result = "none"
    /\ loaded_at = -1
    /\ exit_code = NoExit
    /\ NoLog

FeedIdle ==
    /\ feed_xml = <<>>
    /\ new_episode = NoEpisode

\* chunk_text is not running
NoChunking ==
    /\ tts_text = <<>>
    /\ max_chars = 0
    /\ remaining = <<>>
    /\ chunks = <<>>
    /\ split_pos = -1
    /\ returned = <<>>

\* no AudioProcessor exists
NoProcessing ==
    /\ ffmpeg_available = FALSE
    /\ preset = "none"
    /\ output_path = FALSE
    /\ temp_files = {}
    /\ created = {}
    /\ temp_count = 0
    /\ ffmpeg_status = "none"

\* the variables a specification of one function does not use
NoRuns ==
    /\ now = 0
    /\ dedupe_days = 0
    /\ state_file = FileAbsent
    /\ stamped = [u \in Urls |-> -1]
    /\ RunIdle

NoFeedCalls ==
    /\ feed_file = NoFeed
    /\ FeedIdle

(* filter_items applied to every bounded input *)

InitFilter ==
    /\ pc = "filter"
    /\ items \in SeqUpTo(FetchedItems, MaxLen)
    /\ block_keywords \in BlockChoices
    /\ boost_keywords \in BoostChoices
    /\ used_urls \in UsedChoices
    /\ max_items = 0
    /\ max_per_source = 0
    /\ filtered = <<>>
    /\ selected = <<>>
    /\ NoRuns
    /\ NoFeedCalls
    /\ NoChunking
    /\ NoProcessing

DoFilter ==
    /\ pc = "filter"
    /\ LET r == FilterItems(items, block_keywords, boost_keywords, used_urls)
       IN  /\ items' = r.items
           /\ filtered' = r.filtered
    /\ pc' = "filtered"
    /\ UNCHANGED <<block_keywords, boost_keywords, used_urls,
                   max_items, max_per_source, selected, runVars, feedVars>>
    /\ UNCHANGED toolVars

NextFilter == DoFilter

SpecFilter == InitFilter /\ [][NextFilter]_vars

(* select_items applied to every bounded input *)

InitSelect ==
    /\ pc = "select"
    /\ items \in SeqUpTo(SelectCandidates, MaxSelLen)
    /\ filtered = [i \in 1..Len(items) |-> i]
    /\ max_items \in Limits
    /\ max_per_source \in Limits
    /\ block_keywords = <<>>
    /\ boost_keywords = <<>>
    /\ used_urls = {}
    /\ selected = <<>>
    /\ NoRuns
    /\ NoFeedCalls
    /\ NoChunking
    /\ NoProcessing

DoSelect ==
    /\ pc = "select"
    /\ selected' = SelectItems(items, filtered, max_items, max_per_source)
    /\ pc' = "selected"
    /\ UNCHANGED <<items, block_keywords, boost_keywords, used_urls,
                   max_items, max_per_source, filtered, runVars, feedVars>>
    /\ UNCHANGED toolVars

NextSelect == DoSelect

SpecSelect == InitSelect /\ [][NextSelect]_vars

(* update_feed + save_feed called with every bounded episode *)

FeedDays == 1..(MaxEpisodes + 1)

\* show notes: plain text, or text with the title of a story about "]]>"
NotesChoices == {<<"notes1">>, <<"notes2">>, <<"notes1", CdataEnd>>}
ImageChoices == {<<>>, <<"apod.jpg">>}

Mp3Size == 10            \* len(mp3_bytes) of a synthesized episode
DurationSeconds == 125   \* estimated_duration * 60

Mp3Url(t) == <<"r2/episodes/", ToString(DayOf(t)), ".mp3">>

NewEpisodes ==
    {CreateEpisodeMetadata(d * TicksPerDay, Mp3Url(d * TicksPerDay), Mp3Size,
                           DurationSeconds, n, img) :
        d \in FeedDays, n \in NotesChoices, img \in ImageChoices}

NoSelection ==
    /\ items = <<>>
    /\ block_keywords = <<>>
    /\ boost_keywords = <<>>
    /\ used_urls = {}
    /\ max_items = 0
    /\ max_per_source = 0
    /\ filtered = <<>>
    /\ selected = <<>>

InitFeed ==
    /\ pc = "feed_idle"
    /\ feed_file = NoFeed
    /\ FeedIdle
    /\ NoSelection
    /\ NoRuns
    /\ NoChunking
    /\ NoProcessing

\* feed_xml = update_feed(str(FEED_PATH), episode, config)
UpdateFeedCall ==
    /\ pc = "feed_idle"
    /\ \E ep \in NewEpisodes :
          /\ new_episode' = ep
          /\ feed_xml' = UpdateFeed(feed_file, ep, MaxEpisodes, now)
    /\ pc' = "feed_built"
    /\ UNCHANGED <<feed_file, filterVars, runVars>>
    /\ UNCHANGED toolVars

\* save_feed(str(FEED_PATH), feed_xml)
SaveFeedCall ==
    /\ pc = "feed_built"
    /\ feed_file' = FeedFile(feed_xml)
    /\ pc' = "feed_idle"
    /\ UNCHANGED <<feed_xml, new_episode, filterVars, runVars>>
    /\ UNCHANGED toolVars

NextFeed == UpdateFeedCall \/ SaveFeedCall

SpecFeed == InitFeed /\ [][NextFeed]_vars

(* run_pipeline, run after run, on one state.json and one feed.xml *)

StartTime == 9 * TicksPerDay

DedupeChoices == {1, 2}

GlobalMaxItems == 6      \* filters.get("global_max_items", 6)
MaxPerSource == 2        \* filters.get("max_per_source", 2)

\* config.yaml of the runs: feed.max_episodes, filters.block_keywords,
\* filters.boost_keywords
ConfigMaxEpisodes == 1
ConfigBlock == << <<"B">> >>
ConfigBoost == << <<"A">> >>

\* the entries of the configured feeds, source by source in config order
RunItems ==
    <<ContentItem(<<"a">>, "u1", "s1", <<>>, TrustScore("s1")),
      ContentItem(<<"a">>, "u2", "s1", <<>>, TrustScore("s1")),
      ContentItem(<<"a">>, "u2", "s2", <<"B">>, TrustScore("s2"))>>

\* the entries at the positions S, in the order of the feeds
RECURSIVE Delivered(_, _)
Delivered(S, k) ==
    IF k > Len(RunItems) THEN <<>>
    ELSE (IF k \in S THEN <<RunItems[k]>> ELSE <<>>) \o Delivered(S, k + 1)

\* the entries that are published when a run fetches: an entry may not be
\* out yet or may have left its feed
Published ==
    {T \in SUBSET (1..Len(RunItems)) : Cardinality(T) <= MaxFetch}

\* a state.json left by an earlier version: used_urls without timestamps
InitialStateFiles ==
    {FileAbsent, FileMalformed, FileUndecodable,
     FileJson(StateDict({"u1"}, FALSE, NoTimestamps, NoTime))}

SelectedUrls == {items[selected[k]].url : k \in 1..Len(selected)}

\* _build_show_notes: the text lists every selected item; of that text
\* the titles are kept
RECURSIVE ShowNotes(_, _, _)
ShowNotes(its, sel, k) ==
    IF k > Len(sel) THEN <<>>
    ELSE its[sel[k]].title \o ShowNotes(its, sel, k + 1)

DryRunUrlAsUploaded(t) == Mp3Url(t)

\* line 380: the audio url of a dry run
DryRunUrl(t) == <<"https://example.com/episodes/", ToString(DayOf(t)), ".mp3">>

Init ==
    /\ pc = "idle"
    /\ now = StartTime
    /\ dedupe_days \in DedupeChoices
    /\ state_file \in InitialStateFiles
    /\ stamped = [u \in Urls |-> -1]
    /\ RunIdle
    /\ feed_file = NoFeed
    /\ FeedIdle
    /\ items = <<>>
    /\ block_keywords = ConfigBlock
    /\ boost_keywords = ConfigBoost
    /\ used_urls = {}
    /\ max_items = GlobalMaxItems
    /\ max_per_source = MaxPerSource
    /\ filtered = <<>>
    /\ selected = <<>>
    /\ NoChunking
    /\ NoProcessing

configVars == <<block_keywords, boost_keywords, max_items, max_per_source,
                dedupe_days>>

logVars == <<weather_text, available, fetch_failed, trace, effects>>

\* time passes before each clock read of a run: datetime.now() in
\* clean_old_urls (line 218), today (line 345, used from there to the feed)
\* and the stamp (line 422)
Tick ==
    /\ pc \in {"load_config", "publish", "save_state"}
    /\ now < MaxTime
    /\ now' = now + 1
    /\ UNCHANGED <<pc, filterVars, dedupe_days, state_file, state, dry_run,
                   result, stamped, loaded_at, feedVars, logVars, exit_code>>
    /\ UNCHANGED toolVars

\* the local variables of run_pipeline
localVars == <<items, filtered, selected, used_urls, state, feed_xml,
               new_episode>>

\* run_pipeline returns: its local variables are gone
DropLocals ==
    /\ items' = <<>>
    /\ filtered' = <<>>
    /\ selected' = <<>>
    /\ used_urls' = {}
    /\ state' = EmptyState
    /\ feed_xml' = <<>>
    /\ new_episode' = NoEpisode

\* return False, from a check or from the except clause at the top level
ReturnFalse ==
    /\ pc' = "done"
    /\ result' = "false"
    /\ DropLocals

\* the writes and uploads among the steps
EffectSteps ==
    {"save_transcript", "put_transcript", "put_audio", "update_feed",
     "write_site", "save_state"}

\* the writes and uploads that a sequence of completed steps has made
EffectsOf(steps) == {steps[i] : i \in 1..Len(steps)} \cap EffectSteps

\* main: run_pipeline(dry_run=args.dry_run, ...)
StartRun ==
    /\ pc \in {"idle", "exited"}
    /\ \E d \in BOOLEAN : dry_run' = d
    /\ result' = "none"
    /\ exit_code' = NoExit
    /\ pc' = "load_config"
    /\ UNCHANGED <<filterVars, now, dedupe_days, state_file, state, stamped,
                   loaded_at, feedVars, logVars>>
    /\ UNCHANGED toolVars

\* [1/8] load_config raises when config.yaml is missing or is not YAML
LoadConfig ==
    /\ pc = "load_config"
    /\ trace' = trace \o <<"load_config">>
    /\ \E ok \in BOOLEAN :
          IF ok
          THEN pc' = "load_state" /\ UNCHANGED <<result, localVars>>
          ELSE ReturnFalse
    /\ UNCHANGED <<configVars, now, state_file, dry_run, stamped, loaded_at,
                   feed_file, weather_text, available, fetch_failed, effects,
                   exit_code>>
    /\ UNCHANGED toolVars

\* [2/8] load_state, clean_old_urls, used_urls = set(state["used_urls"])
LoadAndClean ==
    /\ pc = "load_state"
    /\ trace' = trace \o <<"load_state">>
    /\ IF LoadStateRaises(state_file)
       THEN /\ ReturnFalse
            /\ UNCHANGED loaded_at
       ELSE /\ state' = CleanOldUrls(LoadState(state_file), dedupe_days, now)
            /\ used_urls' = state'.used_urls
            /\ loaded_at' = now
            /\ pc' = "fetch"
            /\ UNCHANGED <<result, items, filtered, selected, feed_xml,
                           new_episode>>
    /\ UNCHANGED <<configVars, now, state_file, dry_run, stamped, feed_file,
                   weather_text, available, fetch_failed, effects, exit_code>>
    /\ UNCHANGED toolVars

\* fetch_weather returns None on a request error and the pipeline takes the
\* fallback text
WeatherText(failed) == IF "weather" \in failed THEN "fallback" ELSE "report"

\* fetch_all_rss_sources: RSSSource.fetch returns [] for a source whose
\* fetch fails, the items of the others are appended in config order
FetchedFromKeepsFailed(avail, failed) == Delivered(avail, 1)

FetchedFrom(avail, failed) ==
    Delivered({k \in avail : RunItems[k].source \notin failed}, 1)

\* the fetches that fail in one run
FetchFailures ==
    {F \in SUBSET ({"weather"} \cup Sources) : Cardinality(F) <= MaxFailed}

NothingSelectedOnlyWhenNothingFetched(its, sel) == Len(its) = 0

\* if len(selected) == 0
NothingSelected(its, sel) == Len(sel) = 0

FetchStepsRssFirst == <<"fetch_rss", "fetch_weather", "filter_select">>

FetchSteps == <<"fetch_weather", "fetch_rss", "filter_select">>

\* [3/8]..[5/8] fetch weather and RSS, filter_items, select_items, return
\* False when nothing is selected
FetchAndSelect ==
    /\ pc = "fetch"
    /\ trace' = trace \o FetchSteps
    /\ \E avail \in Published,
          failed \in FetchFailures :
          LET fetched == FetchedFrom(avail, failed)
              r == FilterItems(fetched, block_keywords, boost_keywords,
                               used_urls)
              sel == SelectItems(r.items, r.filtered, max_items,
                                 max_per_source)
          IN  IF NothingSelected(r.items, sel)
              THEN /\ ReturnFalse
                   /\ UNCHANGED <<available, fetch_failed, weather_text>>
              ELSE /\ available' = avail
                   /\ fetch_failed' = failed
                   /\ weather_text' = WeatherText(failed)
                   /\ items' = r.items
                   /\ filtered' = r.filtered
                   /\ selected' = sel
                   /\ pc' = "produce"
                   /\ UNCHANGED <<result, used_urls, state, feed_xml,
                                  new_episode>>
    /\ UNCHANGED <<configVars, now, state_file, dry_run, stamped, loaded_at,
                   feed_file, effects, exit_code>>
    /\ UNCHANGED toolVars

ProduceStepsIgnoringDryRun(dry) ==
    <<"llm", "write_script", "save_transcript", "put_transcript", "tts",
      "r2_check", "put_audio">>

\* lines 322-389: the steps from the script to the audio upload.  A dry run
\* takes the placeholder script, writes the transcript file and calls no
\* service.
ProduceSteps(dry) ==
    IF dry THEN <<"write_script", "save_transcript">>
    ELSE <<"llm", "write_script", "save_transcript", "put_transcript", "tts",
           "r2_check", "put_audio">>

\* the calls to services: generate_script, upload_transcript_to_r2,
\* synthesize_mp3 and upload_mp3_to_r2 raise when the service fails,
\* check_r2_connection returns False.  None is wrapped where it is called.
ServiceCalls == {"llm", "put_transcript", "tts", "r2_check", "put_audio"}

\* [6/8]..[8/8] up to the audio upload.  Each service answers or fails on
\* its own: storage that took the transcript may be unreachable, or refuse
\* to list the bucket, when check_r2_connection asks.  k is the step that
\* fails, 0 when none does.
Produce ==
    /\ pc = "produce"
    /\ LET steps == ProduceSteps(dry_run)
       IN  \E k \in 0..Len(steps) :
              /\ k > 0 => steps[k] \in ServiceCalls
              /\ IF k = 0
                 THEN /\ trace' = trace \o steps
                      /\ effects' = effects \cup EffectsOf(steps)
                      /\ pc' = "publish"
                      /\ UNCHANGED <<result, localVars>>
                 ELSE /\ trace' = trace \o SubSeq(steps, 1, k)
                      /\ effects' =
                            effects \cup EffectsOf(SubSeq(steps, 1, k - 1))
                      /\ ReturnFalse
    /\ weather_text' = "none"
    /\ available' = {}
    /\ fetch_failed' = {}
    /\ UNCHANGED <<configVars, now, state_file, dry_run, stamped, loaded_at,
                   feed_file, exit_code>>
    /\ UNCHANGED toolVars

PublishSteps == <<"fetch_image", "update_feed", "write_site">>

\* lines 391-419: get_apod_for_episode (None when the fetch fails),
\* create_episode_metadata, update_feed, save_feed, save_index_html.  A
\* step may raise before feed.xml is written (the directory or the file
\* cannot be written) or after it (the site page cannot be written).
Publish ==
    /\ pc = "publish"
    /\ \E img \in ImageChoices,
          outcome \in {"ok", "raised_before_feed", "raised_after_feed"} :
          LET ep == CreateEpisodeMetadata(
                        now,
                        IF dry_run THEN DryRunUrl(now) ELSE Mp3Url(now),
                        IF dry_run THEN 0 ELSE Mp3Size,
                        DurationSeconds, ShowNotes(items, selected, 1), img)
              xml == UpdateFeed(feed_file, ep, ConfigMaxEpisodes, now)
          IN  /\ fetch_failed' = IF img = <<>> THEN {"image"} ELSE {}
              /\ IF outcome = "ok"
                 THEN /\ new_episode' = ep
                      /\ feed_xml' = xml
                      /\ feed_file' = FeedFile(xml)
                      /\ trace' = trace \o PublishSteps
                      /\ effects' = effects \cup EffectsOf(PublishSteps)
                      /\ pc' = "save_state"
                      /\ UNCHANGED <<result, items, filtered, selected,
                                     used_urls, state>>
                 ELSE IF outcome = "raised_before_feed"
                 THEN /\ trace' = trace \o SubSeq(PublishSteps, 1, 2)
                      /\ UNCHANGED <<effects, feed_file>>
                      /\ ReturnFalse
                 ELSE /\ feed_file' = FeedFile(xml)
                      /\ trace' = trace \o PublishSteps
                      /\ effects' = effects \cup {"update_feed"}
                      /\ ReturnFalse
    /\ UNCHANGED <<configVars, now, state_file, dry_run, stamped, loaded_at,
                   weather_text, available, exit_code>>
    /\ UNCHANGED toolVars

SaveStateThenRaises ==
    /\ pc = "save_state"
    /\ state_file' = FileJson(StampSelected(state, SelectedUrls, now))
    /\ stamped' = [u \in Urls |-> IF u \in SelectedUrls THEN now ELSE stamped[u]]
    /\ trace' = trace \o <<"save_state">>
    /\ effects' = effects \cup {"save_state"}
    /\ fetch_failed' = {}
    /\ ReturnFalse
    /\ UNCHANGED <<configVars, now, dry_run, loaded_at, feed_file,
                   weather_text, available, exit_code>>
    /\ UNCHANGED toolVars

\* lines 421-438: stamp the selected urls, save_state, return True
SaveState ==
    /\ pc = "save_state"
    /\ state_file' = FileJson(StampSelected(state, SelectedUrls, now))
    /\ stamped' = [u \in Urls |-> IF u \in SelectedUrls THEN now ELSE stamped[u]]
    /\ trace' = trace \o <<"save_state">>
    /\ effects' = effects \cup {"save_state"}
    /\ fetch_failed' = {}
    /\ result' = "true"
    /\ pc' = "done"
    /\ DropLocals
    /\ UNCHANGED <<configVars, now, dry_run, loaded_at, feed_file,
                   weather_text, available, exit_code>>
    /\ UNCHANGED toolVars

ExitCodeAlwaysZero(success) == 0

\* sys.exit(0 if success else 1)
ExitCode(success) == IF success = "true" THEN 0 ELSE 1

\* main: the process ends
Exit ==
    /\ pc = "done"
    /\ pc' = "exited"
    /\ exit_code' = ExitCode(result)
    /\ dry_run' = FALSE
    /\ loaded_at' = -1
    /\ weather_text' = "none"
    /\ available' = {}
    /\ fetch_failed' = {}
    /\ trace' = <<>>
    /\ effects' = {}
    /\ UNCHANGED <<localVars, configVars, now, state_file, stamped, feed_file,
                   result>>
    /\ UNCHANGED toolVars

Next ==
    \/ Tick
    \/ StartRun
    \/ LoadConfig
    \/ LoadAndClean
    \/ FetchAndSelect
    \/ Produce
    \/ Publish
    \/ SaveState
    \/ Exit

Spec == Init /\ [][Next]_vars

(* filter_items, then select_items on its result, as run_pipeline calls   *)
(* them (run_daily.py:301-316), on every bounded list of fetched entries  *)

InitPick ==
    /\ pc = "filter"
    /\ items \in SeqUpTo(FetchedItems, MaxLen)
    /\ block_keywords = ConfigBlock
    /\ boost_keywords = ConfigBoost
    /\ used_urls \in UsedChoices
    /\ max_items = GlobalMaxItems
    /\ max_per_source = MaxPerSource
    /\ filtered = <<>>
    /\ selected = <<>>
    /\ NoRuns
    /\ NoFeedCalls
    /\ NoChunking
    /\ NoProcessing

SelectFiltered ==
    /\ pc = "filtered"
    /\ selected' = SelectItems(items, filtered, max_items, max_per_source)
    /\ pc' = "selected"
    /\ UNCHANGED <<items, block_keywords, boost_keywords, used_urls,
                   max_items, max_per_source, filtered, runVars, feedVars,
                   toolVars>>

NextPick == DoFilter \/ SelectFiltered

SpecPick == InitPick /\ [][NextPick]_vars

(* clean_old_urls applied to every bounded state *)

\* the times a state written by earlier runs can hold
CleanStamps == {IsoFormat(t) : t \in (StartTime - 2 * MaxDedupe)..MaxTime}

TimestampMaps ==
    UNION {[U -> CleanStamps] : U \in SUBSET Urls}

InitClean ==
    /\ pc = "clean"
    /\ now \in (MaxTime - 1)..MaxTime
    /\ dedupe_days \in 0..MaxDedupe
    /\ \E used \in SUBSET Urls, has \in BOOLEAN, stamps \in TimestampMaps :
          /\ ~has => stamps = NoTimestamps
          /\ state_file = FileJson(StateDict(used, has, stamps, NoTime))
    /\ stamped = [u \in Urls |-> -1]
    /\ RunIdle
    /\ NoSelection
    /\ NoFeedCalls
    /\ NoChunking
    /\ NoProcessing

\* state = clean_old_urls(load_state(), dedupe_days)
DoClean ==
    /\ pc = "clean"
    /\ state' = CleanOldUrls(LoadState(state_file), dedupe_days, now)
    /\ pc' = "cleaned"
    /\ UNCHANGED <<filterVars, now, dedupe_days, state_file, dry_run, result,
                   stamped, loaded_at, feedVars, logVars, exit_code>>
    /\ UNCHANGED toolVars

NextClean == DoClean

SpecClean == InitClean /\ [][NextClean]_vars

----------------------------------------------------------------------------
(* tts.py, tts/base.py: chunk_text.  The two copies of the function are the *)
(* same code; TTSProvider.chunk_text reads max_chars from self.             *)

\* the characters of the texts: a letter, the two whitespace characters, a
\* sentence-ending and a clause punctuation
Chars == {"a", " ", "\n", ".", ","}

\* what str.strip() removes
Whitespace == {" ", "\n"}

RECURSIVE LStrip(_)
LStrip(s) ==
    IF s # <<>> /\ Head(s) \in Whitespace THEN LStrip(Tail(s)) ELSE s

RECURSIVE RStrip(_)
RStrip(s) ==
    IF s # <<>> /\ s[Len(s)] \in Whitespace
    THEN RStrip(SubSeq(s, 1, Len(s) - 1))
    ELSE s

\* str.strip()
Strip(s) == RStrip(LStrip(s))

\* the positions (from 0) at which pat occurs in s
Occurrences(s, pat) ==
    {i \in 0..(Len(s) - Len(pat)) : SubSeq(s, i + 1, i + Len(pat)) = pat}

\* str.rfind(pat): the highest position, -1 when there is none
RFind(s, pat) ==
    LET occ == Occurrences(s, pat)
    IN  IF occ = {} THEN -1
        ELSE CHOOSE i \in occ : \A j \in occ : j <= i

ParagraphBreak == <<"\n", "\n">>
SentenceEnds == << <<".", " ">>, <<"!", " ">>, <<"?", " ">>,
                  <<".", "\n">>, <<"!", "\n">>, <<"?", "\n">> >>
ClauseEnds == << <<",", " ">>, <<";", " ">>, <<",", "\n">>, <<";", "\n">> >>

\* for pattern in pats: pos = chunk.rfind(pattern);
\*     if pos > split_pos and pos >= max_chars // 2: split_pos = pos + 1
RECURSIVE TryPatterns(_, _, _, _, _)
TryPatterns(chunk, pats, k, pos0, half) ==
    IF k > Len(pats) THEN pos0
    ELSE LET pos == RFind(chunk, pats[k])
         IN  TryPatterns(chunk, pats, k + 1,
                         IF pos > pos0 /\ pos >= half THEN pos + 1 ELSE pos0,
                         half)

\* the window remaining[:max_chars]
Window(rem, maxChars) == SubSeq(rem, 1, maxChars)

SplitPosAtLastSpace(rem, maxChars) ==
    LET p == RFind(Window(rem, maxChars), <<" ">>)
    IN  IF p = -1 THEN maxChars ELSE p

\* the split position of one iteration (len(remaining) > max_chars)
SplitPos(rem, maxChars) ==
    LET chunk == Window(rem, maxChars)
        half == maxChars \div 2
        p0 == RFind(chunk, ParagraphBreak)
        p1 == IF p0 = -1 \/ p0 < half
              THEN TryPatterns(chunk, SentenceEnds, 1, p0, half) ELSE p0
        p2 == IF p1 = -1 \/ p1 < half
              THEN TryPatterns(chunk, ClauseEnds, 1, p1, half) ELSE p1
        p3 == IF p2 = -1 \/ p2 < half THEN RFind(chunk, <<" ">>) ELSE p2
    IN  IF p3 = -1 THEN maxChars ELSE p3

\* remaining[split_pos:].strip()
RestUnstripped(rem, pos) == SubSeq(rem, pos + 1, Len(rem))

Rest(rem, pos) == Strip(SubSeq(rem, pos + 1, Len(rem)))

\* [c for c in chunks if c]
NonEmpty(cs) == SelectSeq(cs, LAMBDA c : c # <<>>)

(* chunk_text applied to every bounded text *)

Texts == SeqUpTo(Chars, MaxTextLen)

\* the limits tried with every text
MaxCharsChoices == {1, 2, MaxChars}

\* texts whose window holds up to two breaks in its back half
PriorityTexts ==
    {<<"a", "a", "a">> \o w \o <<"a">> : w \in [1..4 -> Chars]}

ChunkInputs ==
    (Texts \X MaxCharsChoices) \cup {<<t, Len(t) - 1>> : t \in PriorityTexts}

InitChunk ==
    /\ pc = "chunk_call"
    /\ \E in \in ChunkInputs :
          /\ tts_text = in[1]
          /\ max_chars = in[2]
    /\ remaining = <<>>
    /\ chunks = <<>>
    /\ split_pos = -1
    /\ returned = <<>>
    /\ NoProcessing
    /\ items = <<>>
    /\ block_keywords = <<>>
    /\ boost_keywords = <<>>
    /\ used_urls = {}
    /\ max_items = 0
    /\ max_per_source = 0
    /\ filtered = <<>>
    /\ selected = <<>>
    /\ NoRuns
    /\ NoFeedCalls

\* lines 23-27 of tts.py: a text within the limit is returned as it is
ChunkCall ==
    /\ pc = "chunk_call"
    /\ IF Len(tts_text) <= max_chars
       THEN /\ returned' = <<tts_text>>
            /\ pc' = "chunk_done"
            /\ UNCHANGED remaining
       ELSE /\ remaining' = tts_text
            /\ pc' = "chunk_loop"
            /\ UNCHANGED returned
    /\ UNCHANGED <<tts_text, max_chars, chunks, split_pos, audioVars,
                   filterVars, runVars, feedVars>>

\* lines 29-64: one iteration of `while remaining`
ChunkStep ==
    /\ pc = "chunk_loop"
    /\ remaining # <<>>
    /\ Len(remaining) > max_chars
    /\ split_pos' = SplitPos(remaining, max_chars)
    /\ chunks' = Append(chunks, Strip(SubSeq(remaining, 1, split_pos')))
    /\ remaining' = Rest(remaining, split_pos')
    /\ UNCHANGED <<pc, tts_text, max_chars, returned, audioVars,
                   filterVars, runVars, feedVars>>

\* lines 29-32 and 66: the loop ends, with the last chunk if text remains
ChunkReturn ==
    /\ pc = "chunk_loop"
    /\ Len(remaining) <= max_chars
    /\ chunks' = IF remaining = <<>> THEN chunks ELSE Append(chunks, remaining)
    /\ returned' = NonEmpty(chunks')
    /\ pc' = "chunk_done"
    /\ UNCHANGED <<tts_text, max_chars, remaining, split_pos, audioVars,
                   filterVars, runVars, feedVars>>

NextChunk == ChunkCall \/ ChunkStep \/ ChunkReturn

SpecChunk == InitChunk /\ [][NextChunk]_vars

----------------------------------------------------------------------------
(* audio_processing.py: AudioProcessor.process, call after call on one      *)
(* processor.  A temporary file is [kind, id]; ids are never reused.        *)

\* presets: "none" has no filters, the others have a filter chain
Presets == {"none", "clarity", "podcast"}

TempFile(kind, id) == [kind |-> kind, id |-> id]

\* the temporary files of the given kind that the running call created
CreatedOfKind(kind) == {f \in created : f.kind = kind}

\* lines 198-203: except Exception: unlink input_path if it exists
CleanUpAfterException == temp_files \ CreatedOfKind("input")

InitAudio ==
    /\ pc = "audio_idle"
    /\ ffmpeg_available \in BOOLEAN
    /\ preset \in Presets
    /\ output_path = FALSE
    /\ temp_files = {}
    /\ created = {}
    /\ temp_count = 0
    /\ ffmpeg_status = "none"
    /\ NoChunking
    /\ items = <<>>
    /\ block_keywords = <<>>
    /\ boost_keywords = <<>>
    /\ used_urls = {}
    /\ max_items = 0
    /\ max_per_source = 0
    /\ filtered = <<>>
    /\ selected = <<>>
    /\ NoRuns
    /\ NoFeedCalls

\* lines 139-154: return at once without ffmpeg or filters, else write the
\* input to a new temporary file
ProcessCall ==
    /\ pc \in {"audio_idle", "audio_returned"}
    /\ temp_count + 2 <= MaxTempFiles
    /\ \E out \in BOOLEAN : output_path' = out
    /\ ffmpeg_status' = "none"
    /\ IF ~ffmpeg_available \/ preset = "none"
       THEN /\ created' = {}
            /\ pc' = "audio_returned"
            /\ UNCHANGED <<temp_files, temp_count>>
       ELSE /\ created' = {TempFile("input", temp_count + 1)}
            /\ temp_files' = temp_files \cup created'
            /\ temp_count' = temp_count + 1
            /\ pc' = "audio_try"
    /\ UNCHANGED <<ffmpeg_available, preset, chunkVars, filterVars, runVars,
                   feedVars>>

\* lines 157-163: the output is output_path or a new temporary file
ChooseOutput ==
    /\ pc = "audio_try"
    /\ IF output_path
       THEN UNCHANGED <<temp_files, created, temp_count>>
       ELSE /\ created' = created \cup {TempFile("output", temp_count + 1)}
            /\ temp_files' = temp_files \cup created'
            /\ temp_count' = temp_count + 1
    /\ pc' = "audio_run"
    /\ UNCHANGED <<ffmpeg_available, preset, output_path, ffmpeg_status,
                   chunkVars, filterVars, runVars, feedVars>>

\* lines 177-185 and 198-203: ffmpeg ends with status 0, ends with another
\* status (return audio_bytes), or subprocess.run raises (timeout)
RunFfmpeg ==
    /\ pc = "audio_run"
    /\ \E status \in {"zero", "nonzero", "raised"} :
          /\ ffmpeg_status' = status
          /\ IF status = "zero"
             THEN pc' = "audio_read" /\ UNCHANGED temp_files
             ELSE IF status = "nonzero"
             THEN pc' = "audio_returned" /\ UNCHANGED temp_files
             ELSE /\ pc' = "audio_returned"
                  /\ temp_files' = CleanUpAfterException
    /\ UNCHANGED <<ffmpeg_available, preset, output_path, created, temp_count,
                   chunkVars, filterVars, runVars, feedVars>>

\* lines 187-196 and 198-203: read the output, unlink the input and the
\* temporary output, return; or the read raises
ReadAndCleanUp ==
    /\ pc = "audio_read"
    /\ \E readable \in BOOLEAN :
          temp_files' = IF readable THEN temp_files \ created
                        ELSE CleanUpAfterException
    /\ pc' = "audio_returned"
    /\ UNCHANGED <<ffmpeg_available, preset, output_path, created, temp_count,
                   ffmpeg_status, chunkVars, filterVars, runVars, feedVars>>

NextAudio == ProcessCall \/ ChooseOutput \/ RunFfmpeg \/ ReadAndCleanUp

SpecAudio == InitAudio /\ [][NextAudio]_vars

----------------------------------------------------------------------------
(* Properties of filter_items *)

Range(f) == {f[i] : i \in DOMAIN f}

\* the items returned by filter_items
Kept == {items[filtered[k]] : k \in 1..Len(filtered)}

MatchesAny(item, kws) ==
    \E j \in 1..Len(kws) : Contains(ItemText(item), Lower(kws[j]))

MatchCount(item, kws) ==
    Cardinality({j \in 1..Len(kws) : Contains(ItemText(item), Lower(kws[j]))})

\* C1: filter_items returns no item whose url is a member of used_urls.
C1_NoUsedUrl ==
    pc = "filtered" => \A it \in Kept : it.url \notin used_urls

C1_Witness ==
    /\ pc = "filtered"
    /\ \E i \in 1..Len(items) : items[i].url \in used_urls
    /\ filtered # <<>>

\* C2: filter_items returns no item whose lower-cased "title summary" text
\* contains the lower-cased form of a block keyword, whatever number of
\* boost keywords the item matches.
C2_NoBlocked ==
    pc = "filtered" => \A it \in Kept : ~MatchesAny(it, block_keywords)

C2_Witness ==
    /\ pc = "filtered"
    /\ \E i \in 1..Len(items) :
          /\ MatchesAny(items[i], block_keywords)
          /\ MatchCount(items[i], boost_keywords) >= 2
          /\ i \notin Range(filtered)
    /\ filtered # <<>>

\* C6: every returned item has score = number of entries of boost_keywords
\* found in its text, whatever score it had before.
C6_ScoreIsBoostCount ==
    pc = "filtered" =>
        \A it \in Kept : it.score = BoostStep * MatchCount(it, boost_keywords)

C6_Witness ==
    /\ pc = "filtered"
    /\ \E it \in Kept : it.score = 3 * BoostStep
    /\ \E it \in Kept : it.score = 0 /\ TrustScore(it.source) # 0

\* C7: the returned list is ordered by non-increasing score and items of
\* equal score keep the relative order of the input list.
C7_SortedStable ==
    pc = "filtered" =>
        \A a, b \in 1..Len(filtered) :
            a < b =>
                /\ items[filtered[a]].score >= items[filtered[b]].score
                /\ items[filtered[a]].score = items[filtered[b]].score
                       => filtered[a] < filtered[b]

C7_Witness ==
    /\ pc = "filtered"
    /\ \E a, b \in 1..Len(filtered) :
          a < b /\ items[filtered[a]].score = items[filtered[b]].score
    /\ \E a, b \in 1..Len(filtered) : a < b /\ filtered[a] > filtered[b]

\* C24: filter_items has no side effect other than assigning score on the
\* items it keeps: the input list (length and order), used_urls and both
\* keyword lists are unchanged, the other fields of every item are
\* unchanged, and a dropped item keeps the score it had.
C24_FilterAssignsScoreOnly ==
    [][pc = "filter" =>
          /\ Len(items') = Len(items)
          /\ \A i \in 1..Len(items) :
                /\ [items'[i] EXCEPT !.score = 0] = [items[i] EXCEPT !.score = 0]
                /\ i \notin Range(filtered') => items'[i].score = items[i].score
          /\ used_urls' = used_urls
          /\ block_keywords' = block_keywords
          /\ boost_keywords' = boost_keywords]_vars

\* an item was dropped, and behind it an item was kept and its score assigned
C24_Witness ==
    /\ pc = "filtered"
    /\ \E i, j \in 1..Len(items) :
          /\ i < j
          /\ i \notin Range(filtered)
          /\ items[i].score = TrustScore(items[i].source)
          /\ j \in Range(filtered)
          /\ items[j].score # TrustScore(items[j].source)

----------------------------------------------------------------------------
(* Properties of select_items *)

\* positions of the input list that were selected
Taken == Range(selected)

SourceOf(ref) == items[ref].source

TakenBefore(i) == {j \in 1..(i - 1) : filtered[j] \in Taken}

TakenOfSourceBefore(i) ==
    {j \in TakenBefore(i) : SourceOf(filtered[j]) = SourceOf(filtered[i])}

\* C4: select_items returns at most max_items items and at most
\* max_per_source items of each source; nothing when a limit is <= 0.
C4_Caps ==
    pc = "selected" =>
        /\ max_items > 0 => Len(selected) <= max_items
        /\ \A s \in SelectSources :
              max_per_source > 0 =>
                  Cardinality({k \in 1..Len(selected) :
                                  SourceOf(selected[k]) = s}) <= max_per_source
        /\ (max_items <= 0 \/ max_per_source <= 0) => selected = <<>>

C4_Witness ==
    /\ pc = "selected"
    /\ Len(selected) = max_items
    /\ Len(selected) < Len(filtered)
    /\ \E s \in SelectSources :
          /\ Cardinality({k \in 1..Len(selected) : SourceOf(selected[k]) = s})
                = max_per_source
          /\ Cardinality({k \in 1..Len(filtered) : SourceOf(filtered[k]) = s})
                > max_per_source

\* C5: the result is a subsequence of the input built in one forward pass:
\* an item is taken exactly when, at its turn, fewer than max_items items
\* and fewer than max_per_source items of its source have been taken.
C5_ForwardPass ==
    pc = "selected" =>
        /\ \A a, b \in 1..Len(selected) : a < b => selected[a] < selected[b]
        /\ Taken \subseteq Range(filtered)
        /\ \A i \in 1..Len(filtered) :
              filtered[i] \in Taken <=>
                  /\ Cardinality(TakenBefore(i)) < max_items
                  /\ Cardinality(TakenOfSourceBefore(i)) < max_per_source

C5_Witness ==
    /\ pc = "selected"
    /\ \E i, j \in 1..Len(filtered) :
          /\ i < j
          /\ filtered[i] \notin Taken
          /\ filtered[j] \in Taken
          /\ Cardinality(TakenBefore(i)) < max_items

\* the items selected from the source of items[i]
TakenOfSource(i) == {r \in Taken : SourceOf(r) = SourceOf(i)}

\* select_items(its, m, p) returns fewer than m items although, behind an
\* item it skipped, the list holds an unselected item of another source of
\* which fewer than p were selected
UnderFilled(its, m, p) ==
    LET sel == SelectItems(its, [i \in 1..Len(its) |-> i], m, p)
        took == {sel[k] : k \in 1..Len(sel)}
        ofSource(src) == {r \in took : its[r].source = src}
    IN  /\ Len(sel) < m
        /\ \E j, i \in 1..Len(its) :
              /\ j < i
              /\ j \notin took
              /\ i \notin took
              /\ its[i].source # its[j].source
              /\ Cardinality(ofSource(its[i].source)) < p

\* C25, as stated: there are inputs for which select_items returns fewer
\* than max_items items although the input still contains, later in the
\* list, an item of another source that has not reached max_per_source.
C25_UnderFillWithEligibleLeft ==
    pc \in {"select", "selected"} =>
        \E its \in SeqUpTo(SelectCandidates, MaxSelLen),
           m \in Limits, p \in Limits :
            UnderFilled(its, m, p)

\* C25, amended: select_items never leaves an eligible item behind: when it
\* returns fewer than max_items items, every item it did not select is of
\* a source of which max_per_source items were selected.
C25_NoEligibleItemLeft ==
    (pc = "selected" /\ Len(selected) < max_items) =>
        \A i \in 1..Len(filtered) :
            filtered[i] \notin Taken =>
                Cardinality(TakenOfSource(filtered[i])) >= max_per_source

\* fewer than max_items were selected, an item was skipped at the cap of its
\* source and an item of another source behind it was selected
C25_Witness ==
    /\ pc = "selected"
    /\ Len(selected) < max_items
    /\ max_per_source > 0
    /\ \E j, i \in 1..Len(filtered) :
          /\ j < i
          /\ filtered[j] \notin Taken
          /\ filtered[i] \in Taken
          /\ SourceOf(filtered[i]) # SourceOf(filtered[j])

\* C27: the items selected for one episode have pairwise distinct URLs,
\* also when the fetched items hold the same URL more than once:
\* filter_items followed by select_items never lets two items with equal
\* url through.
C27_SelectedUrlsDistinct ==
    pc = "selected" =>
        \A a, b \in 1..Len(selected) :
            a # b => items[selected[a]].url # items[selected[b]].url

----------------------------------------------------------------------------
(* Properties of the feed merge *)

\* the episodes of the feed: what a reader of feed.xml gets
FeedEpisodes == LoadExistingEpisodes(feed_file)

FeedGuids == {FeedEpisodes[i].guid : i \in 1..Len(FeedEpisodes)}

GuidsUnique(episodes) ==
    \A i, j \in 1..Len(episodes) :
        episodes[i].guid = episodes[j].guid => i = j

\* the <item> elements written to feed.xml have pairwise distinct GUIDs
FileGuidsUnique ==
    \A i, j \in 1..Len(feed_file.items) :
        feed_file.items[i].guid = feed_file.items[j].guid => i = j

\* save_feed has just written an update whose GUID the feed already had
ReplacingSave ==
    /\ pc = "feed_built"
    /\ pc' = "feed_idle"
    /\ new_episode.guid # <<>>
    /\ new_episode.guid \in FeedGuids

\* C10: starting from an absent feed, the feed never contains two episodes
\* with the same GUID, and an update whose GUID is already present replaces
\* that episode at its position with the new record and leaves the number
\* of episodes unchanged.
C10_UniqueAndReplacedInPlace ==
    /\ [](GuidsUnique(FeedEpisodes))
    /\ [][ReplacingSave =>
            /\ Len(FeedEpisodes') = Len(FeedEpisodes)
            /\ \A i \in 1..Len(FeedEpisodes) :
                  FeedEpisodes[i].guid = new_episode.guid =>
                      /\ FeedEpisodes'[i].guid = new_episode.guid
                      /\ FeedEpisodes'[i].description = new_episode.description
          ]_vars

\* the GUIDs of the <item> elements of a file, in document order
WrittenGuids(file) ==
    [i \in 1..Len(file.items) |-> XmlUnescape(file.items[i].guid)]

\* save_feed is writing an update whose GUID no <item> of the file has
SavingNewGuid ==
    /\ pc = "feed_built"
    /\ pc' = "feed_idle"
    /\ \A i \in 1..Len(feed_file.items) :
          WrittenGuids(feed_file)[i] # new_episode.guid

\* C11: update_feed with a GUID not present in the existing feed puts the
\* new episode first, followed by all existing episodes in their previous
\* order, and every published field of each existing episode (title,
\* description, pubDate, GUID, enclosure URL and length, duration, episode
\* image) is the same in the re-rendered feed as it was before the update.
\* Stated for a well-formed feed that has room for one more episode.
C11_ExistingEpisodesUnchanged ==
    [][(SavingNewGuid /\ WellFormed(feed_file)
            /\ Len(feed_file.items) < MaxEpisodes) =>
          /\ Len(feed_file'.items) = Len(feed_file.items) + 1
          /\ XmlUnescape(feed_file'.items[1].guid) = new_episode.guid
          /\ \A i \in 1..Len(feed_file.items) :
                feed_file'.items[i + 1] = feed_file.items[i]
      ]_vars

\* C12: after any sequence of feed updates the rendered feed contains at
\* most max_episodes items, the first max_episodes entries of the merged
\* list, so adding a new GUID to a full feed drops exactly the last (oldest)
\* episode and never the new one.
C12_TruncatedToNewest ==
    /\ [](Len(feed_xml) <= MaxEpisodes /\ Len(feed_file.items) <= MaxEpisodes)
    /\ [][(SavingNewGuid /\ Len(feed_file.items) = MaxEpisodes) =>
            WrittenGuids(feed_file') =
                <<new_episode.guid>>
                    \o SubSeq(WrittenGuids(feed_file), 1, MaxEpisodes - 1)
        ]_vars

----------------------------------------------------------------------------
(* Properties of the run state *)

\* the time a timestamp string stands for
TimeOf(ts) == CHOOSE t \in 0..(MaxTime + 1) : IsoFormat(t) = ts

\* C8: after clean_old_urls on a state that has url_timestamps the map holds
\* exactly the entries strictly later than now - dedupe_days days, with their
\* timestamps unchanged, and used_urls is the key set of that map.
C8_CleanKeepsNewer ==
    LET before == state_file.content
        kept == {u \in DOMAIN before.url_timestamps :
                    TimeOf(before.url_timestamps[u])
                        > now - dedupe_days * TicksPerDay}
    IN  (pc = "cleaned" /\ before.has_timestamps) =>
            /\ state.url_timestamps = [u \in kept |-> before.url_timestamps[u]]
            /\ state.used_urls = kept

C8_Witness ==
    LET before == state_file.content
        cutoff == now - dedupe_days * TicksPerDay
    IN  /\ pc = "cleaned"
        /\ before.has_timestamps
        /\ \E u \in DOMAIN before.url_timestamps :
              /\ TimeOf(before.url_timestamps[u]) = cutoff
              /\ u \notin state.used_urls
        /\ \E u \in DOMAIN before.url_timestamps :
              /\ TimeOf(before.url_timestamps[u]) = cutoff + 1
              /\ u \in state.used_urls
              /\ u \notin before.used_urls

\* the running pipeline has selected its items and not yet stamped them
SelectionMade == pc \in {"produce", "publish", "save_state"}

\* C3: a url selected by a successful run is not selected by a later run
\* that loads the state less than dedupe_days after the url was stamped.
C3_NoReselectionInWindow ==
    SelectionMade =>
        \A u \in SelectedUrls :
            stamped[u] >= 0 =>
                loaded_at - stamped[u] >= dedupe_days * TicksPerDay

C3_Witness ==
    /\ SelectionMade
    /\ \E i \in 1..Len(items) :
          /\ stamped[items[i].url] >= 0
          /\ loaded_at > stamped[items[i].url]
          /\ loaded_at - stamped[items[i].url] < dedupe_days * TicksPerDay
          /\ items[i].url \notin SelectedUrls
    /\ \E u \in SelectedUrls : stamped[u] >= 0

\* the pipeline is past load_state
StateLoaded == pc \in {"fetch", "produce", "publish", "save_state"}

\* C9: when state.json is absent or its content cannot be parsed,
\* load_state yields the empty state and the run proceeds with it instead
\* of failing.
C9_UnreadableStateIsEmpty ==
    (state_file.kind \in {"absent", "malformed", "undecodable"}
        /\ pc \notin {"idle", "load_config", "load_state", "exited"}) =>
            /\ loaded_at >= 0
            /\ StateLoaded => state = EmptyState /\ used_urls = {}

----------------------------------------------------------------------------
(* Properties of run_pipeline *)

LastStep == IF trace = <<>> THEN "none" ELSE trace[Len(trace)]
Started(step) == \E i \in 1..Len(trace) : trace[i] = step

\* the run has returned False at the check of the selection
ReturnedAtSelection ==
    /\ pc = "done"
    /\ LastStep = "filter_select"

\* C13: if filtering and selection yield zero items, run_pipeline returns
\* False without generating a script, synthesizing audio, uploading any
\* object, writing the feed or site, or saving state.
C13_NothingSelectedNothingDone ==
    /\ [](pc = "produce" => Len(selected) > 0)
    /\ [](ReturnedAtSelection =>
            /\ result = "false"
            /\ effects = {}
            /\ trace = <<"load_config", "load_state">> \o FetchSteps)
    /\ [][pc = "fetch" =>
            /\ state_file' = state_file
            /\ feed_file' = feed_file]_vars

C13_Witness ==
    /\ ReturnedAtSelection
    /\ result = "false"
    /\ state_file.kind = "json"
    /\ feed_file.exists

\* C14: in a non-dry run, when object storage is found unreachable the run
\* returns False before anything has been published: no transcript object
\* and no audio object has been PUT, the feed and the state file are
\* unchanged.
C14_UnreachableStorageNothingPut ==
    (pc = "done" /\ ~dry_run /\ LastStep = "r2_check") =>
        /\ result = "false"
        /\ "put_transcript" \notin effects
        /\ "put_audio" \notin effects
        /\ "update_feed" \notin effects
        /\ "save_state" \notin effects

\* C15: an exception raised by the LLM call, by the TTS call or by an
\* upload is caught where the call is made, so that this failure alone does
\* not abort the run: run_pipeline still reaches the following steps.
C15_ServiceFailureDoesNotAbort ==
    pc = "done" =>
        LastStep \notin {"llm", "tts", "put_transcript", "put_audio"}

\* the entries a run is to get: those published, of the sources whose fetch
\* did not fail
KeptEntries ==
    {k \in available : RunItems[k].source \notin fetch_failed}

\* the i-th of a set of positions, in increasing order
Nth(S, i) == CHOOSE k \in S : Cardinality({j \in S : j <= k}) = i

\* C16: a failed fetch of the weather, of a single RSS source or of the
\* episode image is recoverable: the failing source contributes no item (or
\* the fallback weather text, or no artwork), the items of every other
\* source are fetched and kept, and the failure never makes the run return
\* False.
C16_FetchFailureRecoverable ==
    /\ pc = "produce" =>
          /\ Len(items) = Cardinality(KeptEntries)
          /\ \A i \in 1..Len(items) :
                [items[i] EXCEPT !.score = 0]
                    = [RunItems[Nth(KeptEntries, i)] EXCEPT !.score = 0]
          /\ weather_text =
                IF "weather" \in fetch_failed THEN "fallback" ELSE "report"
    /\ (pc = "save_state" /\ "image" \in fetch_failed) =>
          new_episode.image_url = <<>>
    /\ (pc = "done" /\ result = "false") =>
          LastStep \notin {"fetch_weather", "fetch_rss", "fetch_image"}

C16_Witness ==
    /\ pc = "produce"
    /\ fetch_failed = {"s2"}
    /\ \E k \in available : RunItems[k].source = "s2"
    /\ Len(items) > 0

\* C17: run_pipeline never propagates an exception: a run in which a step
\* raised returns False, and the process exits with code 0 exactly when
\* run_pipeline returned True and with code 1 otherwise.
C17_ExitCodeTellsResult ==
    /\ pc \in {"done", "exited"} => result \in {"true", "false"}
    /\ pc = "done" => (result = "true" <=> LastStep = "save_state")
    /\ pc = "exited" =>
          /\ exit_code = 0 <=> result = "true"
          /\ exit_code = 1 <=> result = "false"

C17_Witness ==
    /\ pc = "exited"
    /\ exit_code = 1
    /\ state_file.kind = "undecodable"

\* the run has returned False after the audio upload and before the feed
\* was written
AudioOrphaned ==
    /\ pc = "done"
    /\ result = "false"
    /\ "put_audio" \in effects
    /\ "update_feed" \notin effects

\* C18: the state file is written only as the last step of a run that
\* returns True; a run that returns False leaves the state file and its
\* stamped URLs as they were, and when it fails after the audio upload and
\* before the feed was written it leaves the feed file unchanged as well.
C18_StateSavedOnlyOnSuccess ==
    /\ [][state_file' # state_file =>
            /\ pc = "save_state"
            /\ pc' = "done"
            /\ result' = "true"]_vars
    /\ [][stamped' # stamped => result' = "true"]_vars
    /\ [][(pc = "publish" /\ AudioOrphaned') => feed_file' = feed_file]_vars
    /\ [](pc = "done" =>
            ("save_state" \in effects <=> result = "true"))

C18_Witness ==
    /\ AudioOrphaned
    /\ state_file.kind = "json"

\* C19: with dry_run=True no step of run_pipeline calls the language model,
\* the TTS service or object storage (no connectivity check, no transcript
\* PUT, no audio PUT), whatever the outcome of the other steps.
C19_DryRunCallsNoService ==
    dry_run =>
        /\ \A i \in 1..Len(trace) : trace[i] \notin ServiceCalls
        /\ effects \cap {"put_transcript", "put_audio"} = {}

C19_Witness ==
    /\ dry_run
    /\ pc = "done"
    /\ result = "true"

\* the steps of the control flow, in the order the spec gives
StepOrder ==
    <<"load_config", "load_state", "fetch_weather", "fetch_rss",
      "filter_select", "write_script", "tts", "put_audio", "update_feed",
      "save_state">>

Rank(step) == CHOOSE r \in 1..Len(StepOrder) : StepOrder[r] = step
IsStep(step) == \E r \in 1..Len(StepOrder) : StepOrder[r] = step

\* a dry run has no synthesis and no upload
StepsOfRun ==
    {StepOrder[r] : r \in 1..Len(StepOrder)}
        \ (IF dry_run THEN {"tts", "put_audio"} ELSE {})

\* C20: in every run the steps happen in the fixed order load config, load
\* state, fetch weather, fetch RSS, filter/select, write script, synthesize
\* audio, upload audio, update feed/site, save state: no step starts before
\* its predecessor has completed, none runs twice, and in a non-dry run the
\* episode is merged into the feed only after the audio upload has returned
\* successfully.
C20_StepsInOrder ==
    /\ \A i, j \in 1..Len(trace) :
          (i < j /\ IsStep(trace[i]) /\ IsStep(trace[j])) =>
              Rank(trace[i]) < Rank(trace[j])
    /\ \A j \in 1..Len(trace) :
          IsStep(trace[j]) =>
              \A step \in StepsOfRun :
                  Rank(step) < Rank(trace[j]) =>
                      \E i \in 1..(j - 1) : trace[i] = step
    /\ (~dry_run /\ Started("update_feed")) => "put_audio" \in effects
    /\ "update_feed" \in effects => Started("update_feed")

C20_Witness ==
    /\ pc = "done"
    /\ ~dry_run
    /\ result = "true"
    /\ Len(trace) = 16

----------------------------------------------------------------------------
(* Properties of chunk_text *)

\* C21: for every text, the empty and the whitespace-only text included,
\* and every max_chars >= 1, every chunk returned by chunk_text has length
\* <= max_chars and no returned chunk is empty.
C21_ChunksWithinLimitAndNonEmpty ==
    pc = "chunk_done" =>
        \A i \in 1..Len(returned) :
            /\ Len(returned[i]) <= max_chars
            /\ returned[i] # <<>>

\* t is the chunks cs[k..] joined in order, with at most one whitespace
\* character between two neighbours
RECURSIVE Rejoins(_, _, _)
Rejoins(t, cs, k) ==
    IF k > Len(cs) THEN t = <<>>
    ELSE /\ Len(t) >= Len(cs[k])
         /\ SubSeq(t, 1, Len(cs[k])) = cs[k]
         /\ LET r == SubSeq(t, Len(cs[k]) + 1, Len(t))
            IN  IF k = Len(cs) THEN r = <<>>
                ELSE \/ Rejoins(r, cs, k + 1)
                     \/ /\ r # <<>>
                        /\ Head(r) \in Whitespace
                        /\ Rejoins(Tail(r), cs, k + 1)

\* C22: joining the chunks returned by chunk_text in order, with the single
\* whitespace or newline character trimmed at a split put back, gives the
\* original text exactly.
C22_ChunksRejoinToText ==
    pc = "chunk_done" => Rejoins(tts_text, returned, 1)

\* the positions in the back half of the window at which one of pats occurs
BackHalf(chunk, pats, half) ==
    {i \in UNION {Occurrences(chunk, pats[k]) : k \in 1..Len(pats)} :
        i >= half}

Last(S) == CHOOSE i \in S : \A j \in S : j <= i

\* the split position by priority of the kinds of break
PreferredSplit(rem, maxChars) ==
    LET chunk == Window(rem, maxChars)
        half == maxChars \div 2
        para == BackHalf(chunk, <<ParagraphBreak>>, half)
        sent == BackHalf(chunk, SentenceEnds, half)
        clause == BackHalf(chunk, ClauseEnds, half)
        space == Occurrences(chunk, <<" ">>)
    IN  IF para # {} THEN Last(para)
        ELSE IF sent # {} THEN Last(sent) + 1
        ELSE IF clause # {} THEN Last(clause) + 1
        ELSE IF space # {} THEN Last(space)
        ELSE maxChars

\* the back half of the window holds a paragraph boundary, a sentence end,
\* a clause end or a space
NaturalBreak(rem, maxChars) ==
    LET chunk == Window(rem, maxChars)
        half == maxChars \div 2
    IN  \/ BackHalf(chunk, <<ParagraphBreak>>, half) # {}
        \/ BackHalf(chunk, SentenceEnds, half) # {}
        \/ BackHalf(chunk, ClauseEnds, half) # {}
        \/ BackHalf(chunk, << <<" ">> >>, half) # {}

Splitting == pc = "chunk_loop" /\ pc' = "chunk_loop"

C30_RemainingShrinks ==
    [][Splitting => Len(remaining') < Len(remaining)]_vars

\* a split at position 0 has been made: the chunk is empty
C30_Witness ==
    /\ pc = "chunk_loop"
    /\ split_pos = 0
    /\ chunks = << <<>> >>
    /\ Len(remaining) < Len(tts_text)

----------------------------------------------------------------------------
(* Properties of AudioProcessor.process *)

\* C26: every temporary file that process creates (the input file and,
\* without output_path, the output file) has been deleted by the time
\* process returns, on every path: success, non-zero ffmpeg exit status,
\* exception or timeout.
C26_TempFilesDeleted ==
    pc = "audio_returned" => created \cap temp_files = {}

----------------------------------------------------------------------------
(* Properties of the saved state *)

\* the entries of state.json that the cleanup of the running pipeline kept
Survived ==
    LET old == LoadState(state_file)
    IN  IF old.has_timestamps
        THEN {u \in DOMAIN old.url_timestamps :
                 TimeOf(old.url_timestamps[u])
                     > loaded_at - dedupe_days * TicksPerDay}
        ELSE {}

\* C28: in every state written by save_state, used_urls is exactly the key
\* set of url_timestamps, url_timestamps is the map that survived this
\* run's cleanup plus every selected URL mapped to the run's timestamp, and
\* last_run is that timestamp; URLs that were listed in used_urls without a
\* timestamp are no longer present.
C28_SavedStateIsStampedMap ==
    [][state_file' # state_file =>
          LET st == state_file'.content
              old == LoadState(state_file)
              ts == IsoFormat(now)
          IN  /\ state_file'.kind = "json"
              /\ st.has_timestamps
              /\ st.used_urls = DOMAIN st.url_timestamps
              /\ DOMAIN st.url_timestamps = Survived \cup SelectedUrls
              /\ \A u \in SelectedUrls : st.url_timestamps[u] = ts
              /\ \A u \in Survived \ SelectedUrls :
                    st.url_timestamps[u] = old.url_timestamps[u]
              /\ st.last_run = ts]_vars

\* the saved map holds an entry that survived and an entry stamped later
C28_Witness ==
    /\ pc = "done"
    /\ result = "true"
    /\ state_file.kind = "json"
    /\ state_file.content.has_timestamps
    /\ DOMAIN state_file.content.url_timestamps = {"u1", "u2"}
    /\ state_file.content.url_timestamps["u1"]
          # state_file.content.url_timestamps["u2"]

\* the enclosure url a feed item has when no audio was uploaded
PlaceholderUrl(t) ==
    <<"https://example.com/episodes/", ToString(t \div TicksPerDay), ".mp3">>

\* the feed item of an episode made by a dry run
IsDryRunItem(item) ==
    /\ item.length = 0
    /\ \E t \in 0..MaxTime : item.url = PlaceholderUrl(t)

\* the newest episode of the feed was made by a dry run
LastEpisodeFromDryRun ==
    /\ feed_file.exists
    /\ feed_file.items # <<>>
    /\ IsDryRunItem(feed_file.items[1])

\* u was stamped by the latest run that saved the state, inside the window
\* of the running pipeline
StampedLastInWindow(u) ==
    /\ stamped[u] >= 0
    /\ \A v \in Urls : stamped[v] <= stamped[u]
    /\ loaded_at - stamped[u] < dedupe_days * TicksPerDay

\* C29: a dry run that selects at least one item still merges an episode
\* (placeholder audio URL, byte size 0) into the feed file and stamps the
\* selected URLs into the saved state as a real run does, so those URLs are
\* excluded from the next real run inside the dedupe window.
C29_DryRunPublishesAndStamps ==
    /\ [][(pc = "publish" /\ dry_run /\ pc' = "save_state") =>
            /\ feed_file'.exists
            /\ \E i \in 1..Len(feed_file'.items) :
                  /\ feed_file'.items[i].guid = XmlEscape(<<ToString(DayOf(now))>>)
                  /\ feed_file'.items[i].url = PlaceholderUrl(now)
                  /\ feed_file'.items[i].length = 0]_vars
    /\ [][(pc = "save_state" /\ dry_run /\ pc' = "done") =>
            /\ SelectedUrls # {}
            /\ state_file'.kind = "json"
            /\ \A u \in SelectedUrls :
                  /\ u \in state_file'.content.used_urls
                  /\ state_file'.content.url_timestamps[u] = IsoFormat(now)
                  /\ stamped'[u] = now]_vars
    /\ []((~dry_run /\ SelectionMade /\ LastEpisodeFromDryRun) =>
            \A u \in Urls : StampedLastInWindow(u) => u \notin SelectedUrls)

\* a real run, after a dry run, has fetched an unblocked item whose url the
\* dry run stamped, and has not selected it
C29_Witness ==
    /\ ~dry_run
    /\ pc = "produce"
    /\ LastEpisodeFromDryRun
    /\ \E i \in 1..Len(items) :
          /\ StampedLastInWindow(items[i].url)
          /\ ~Blocked(ItemText(items[i]), block_keywords, 1)
          /\ items[i].url \notin SelectedUrls

====
